---- MODULE Spec2Model ----
(***************************************************************************)
(* Model of rag.py, a Streamlit script.  Streamlit runs the script from    *)
(* its first line to its last on every widget interaction; only            *)
(* st.session_state and the widgets' values survive from one run to the    *)
(* next.  Text is a sequence of one-character strings; a character that    *)
(* has no escape in a TLA+ string is written as its Python escape.         *)
(***************************************************************************)
EXTENDS Naturals, Integers, Sequences, FiniteSets, TLC

\* ------------------------------------------------------------------------
\* Bounds of the model
\* ------------------------------------------------------------------------

\* Longest chat history explored: a query is submitted only while its two
\* turns still fit.
MaxTurns == 4

\* ------------------------------------------------------------------------
\* Program constants
\* ------------------------------------------------------------------------

\* RecursiveCharacterTextSplitter(chunk_size=300, chunk_overlap=50)
chunk_size == 300
chunk_overlap == 50
\* as_retriever(search_kwargs={"k": 3})
k == 3

\* ------------------------------------------------------------------------
\* Text helpers
\* ------------------------------------------------------------------------

\* n copies of the character c
Rep(c, n) == [i \in 1..n |-> c]

\* The characters str.strip() removes by default: those of str.isspace().
Whitespace ==
    {"\t", "\n", "\\x0b", "\f", "\r", "\\x1c", "\\x1d", "\\x1e", "\\x1f", " ",
     "\\x85", "\\xa0", "\\u1680", "\\u2000", "\\u2001", "\\u2002", "\\u2003",
     "\\u2004", "\\u2005", "\\u2006", "\\u2007", "\\u2008", "\\u2009", "\\u200a",
     "\\u2028", "\\u2029", "\\u202f", "\\u205f", "\\u3000"}

\* str.strip(): the text without its leading and trailing whitespace.
strip(s) ==
    IF \A i \in 1..Len(s) : s[i] \in Whitespace THEN <<>>
    ELSE LET first == CHOOSE i \in 1..Len(s) :
                         s[i] \notin Whitespace /\ \A j \in 1..(i-1) : s[j] \in Whitespace
             last  == CHOOSE i \in 1..Len(s) :
                         s[i] \notin Whitespace /\ \A j \in (i+1)..Len(s) : s[j] \in Whitespace
         IN  SubSeq(s, first, last)

\* "".join(parts), joined by halves (the recursion stays shallow)
RECURSIVE Concat(_)
Concat(parts) ==
    IF Len(parts) = 0 THEN <<>>
    ELSE IF Len(parts) = 1 THEN parts[1]
    ELSE LET h == Len(parts) \div 2
         IN  Concat(SubSeq(parts, 1, h)) \o Concat(SubSeq(parts, h + 1, Len(parts)))

\* ------------------------------------------------------------------------
\* RecursiveCharacterTextSplitter.split_text (rag.py lines 190-191)
\* ------------------------------------------------------------------------

\* The splitter's default separators, tried in this order.
separators == << <<"\n", "\n">>, <<"\n">>, <<" ">>, <<>> >>

\* Whether separator sep occurs in text at position p.
MatchAt(text, sep, p) ==
    /\ p + Len(sep) - 1 <= Len(text)
    /\ \A j \in 1..Len(sep) : text[p + j - 1] = sep[j]

\* Whether sep occurs in text at or after position from.
HasMatch(text, sep, from) ==
    \E p \in from..Len(text) : MatchAt(text, sep, p)

\* The leftmost occurrence of sep at or after from.
NextMatch(text, sep, from) ==
    CHOOSE p \in from..Len(text) :
        MatchAt(text, sep, p) /\ \A q \in from..(p-1) : ~MatchAt(text, sep, q)

\* re.split with the separator kept at the start of the piece that follows it:
\* the piece that starts at pieceStart, cut at the matches found from `from` on.
RECURSIVE SplitFrom(_, _, _, _)
SplitFrom(text, sep, from, pieceStart) ==
    IF HasMatch(text, sep, from)
    THEN LET p == NextMatch(text, sep, from)
         IN  <<SubSeq(text, pieceStart, p - 1)>> \o SplitFrom(text, sep, p + Len(sep), p)
    ELSE <<SubSeq(text, pieceStart, Len(text))>>

\* _split_text_with_regex(text, separator, keep_separator=True): the pieces,
\* the empty ones dropped; the empty separator splits into single characters.
split_text_with_regex(text, sep) ==
    LET pieces == IF sep = <<>> THEN [i \in 1..Len(text) |-> <<text[i]>>]
                  ELSE SplitFrom(text, sep, 1, 1)
    IN  SelectSeq(pieces, LAMBDA s : s /= <<>>)

\* _join_docs(docs, ""): the joined and stripped text as a list of zero or one
\* documents (None when the stripped text is empty).
join_docs(docs) ==
    LET text == strip(Concat(docs))
    IN  IF text = <<>> THEN <<>> ELSE <<text>>

\* Sum of the lengths of the pieces, summed by halves.
RECURSIVE TotalLen(_)
TotalLen(docs) ==
    IF Len(docs) = 0 THEN 0
    ELSE IF Len(docs) = 1 THEN Len(docs[1])
    ELSE LET h == Len(docs) \div 2
         IN  TotalLen(SubSeq(docs, 1, h)) + TotalLen(SubSeq(docs, h + 1, Len(docs)))

\* The condition of the while loop of _merge_splits (the separator is empty):
\* the current document is longer than the overlap, or it is not empty and the
\* next piece, of length len, would not fit.
KeepPopping(current_doc, len) ==
    LET total == TotalLen(current_doc)
    IN  total > chunk_overlap \/ (total + len > chunk_size /\ total > 0)

\* The while loop of _merge_splits: the current document after its pieces were
\* popped from the front for as long as KeepPopping holds.
PopFront(current_doc, len) ==
    LET Rest(n) == SubSeq(current_doc, n + 1, Len(current_doc))
        popped == CHOOSE n \in 0..Len(current_doc) :
                      /\ ~KeepPopping(Rest(n), len)
                      /\ \A m \in 0..(n-1) : KeepPopping(Rest(m), len)
    IN  Rest(popped)

\* _merge_splits(splits, ""): the for loop from piece i on, with the current
\* document; the documents produced.  Pieces are appended up to the first piece
\* j that does not fit a non-empty current document; there the current document
\* is emitted, popped down to the overlap, and the loop goes on.
RECURSIVE MergeFrom(_, _, _)
MergeFrom(splits, i, current_doc) ==
    LET Cur(j) == current_doc \o SubSeq(splits, i, j - 1)
        Emits(j) == Cur(j) /= <<>> /\ TotalLen(Cur(j)) + Len(splits[j]) > chunk_size
    IN  IF \E j \in i..Len(splits) : Emits(j)
        THEN LET j == CHOOSE j \in i..Len(splits) :
                          Emits(j) /\ \A q \in i..(j-1) : ~Emits(q)
             IN  join_docs(Cur(j))
                 \o MergeFrom(splits, j + 1,
                              Append(PopFront(Cur(j), Len(splits[j])), splits[j]))
        ELSE join_docs(Cur(Len(splits) + 1))

merge_splits(splits) == MergeFrom(splits, 1, <<>>)

\* The first separator, from position si of the list on, that is empty or
\* occurs in the text.
RECURSIVE PickSeparator(_, _)
PickSeparator(text, si) ==
    IF separators[si] = <<>> \/ HasMatch(text, separators[si], 1) THEN si
    ELSE PickSeparator(text, si + 1)

\* _split_text(text, separators[si..]) and its loop over the pieces: pieces
\* shorter than chunk_size are collected and merged, a longer piece is split
\* again with the separators that remain.
RECURSIVE SplitText(_, _), SplitLoop(_, _, _)
SplitLoop(splits, i, next_si) ==
    LET Long(j) == Len(splits[j]) >= chunk_size
    IN  IF \E j \in i..Len(splits) : Long(j)
        THEN LET j == CHOOSE j \in i..Len(splits) :
                          Long(j) /\ \A q \in i..(j-1) : ~Long(q)
                 s == splits[j]
             IN  merge_splits(SubSeq(splits, i, j - 1))
                 \o (IF next_si > Len(separators) THEN <<s>> ELSE SplitText(s, next_si))
                 \o SplitLoop(splits, j + 1, next_si)
        ELSE merge_splits(SubSeq(splits, i, Len(splits)))

SplitText(text, si) ==
    LET picked == PickSeparator(text, si)
        \* new_separators stays empty when the empty separator is picked
        next_si == IF separators[picked] = <<>> THEN Len(separators) + 1 ELSE picked + 1
    IN  SplitLoop(split_text_with_regex(text, separators[picked]), 1, next_si)

split_text(text) == SplitText(text, 1)

\* ------------------------------------------------------------------------
\* Vector index and retriever (rag.py lines 194-195, 204)
\* ------------------------------------------------------------------------

\* FAISS.from_texts(chunks, embedding_model): one entry per chunk, in order.
\* The vectors come from the embedding model all-MiniLM-L6-v2, which is not
\* part of the repository; the model keeps the texts only.
from_texts(texts) == [i \in 1..Len(texts) |-> [page_content |-> texts[i]]]

\* The number of entries a search for kk neighbours returns: kk, or every
\* entry when the store holds fewer.
ResultCount(store, kk) == IF Len(store) < kk THEN Len(store) ELSE kk

\* The ways to pick m different entries out of n, in an order.
Selections(n, m) ==
    {f \in [1..m -> 1..n] : \A i, j \in 1..m : i /= j => f[i] /= f[j]}

\* vector_store.similarity_search(query, k=kk): the page contents of the kk
\* entries nearest to the query, nearest first.  Which entries are nearest is
\* decided by the embedding model; every selection of different entries is an
\* outcome.
similarity_search(store, query, kk) ==
    {[r \in 1..ResultCount(store, kk) |-> store[f[r]].page_content] :
        f \in Selections(Len(store), ResultCount(store, kk))}

\* A retriever made by as_retriever() with no search_kwargs: the library's
\* default count, one more than k.
get_relevant_documents_default_count(store, query) == similarity_search(store, query, k + 1)

\* retriever.get_relevant_documents(user_input), the retriever made by
\* as_retriever(search_kwargs={"k": 3}): the possible results.
get_relevant_documents(store, query) == similarity_search(store, query, k)

\* ------------------------------------------------------------------------
\* Prompt (rag.py lines 205-214)
\* ------------------------------------------------------------------------

\* separator.join(parts)
RECURSIVE Join(_, _)
Join(sep, parts) ==
    IF Len(parts) = 0 THEN <<>>
    ELSE IF Len(parts) = 1 THEN parts[1]
    ELSE parts[1] \o sep \o Join(sep, Tail(parts))

\* The f-string wrapped around each retrieved document; the markup is kept
\* as one element.
Highlight(page_content) ==
    <<"<span class='pdf-highlight'>">> \o page_content \o <<"</span>">>

\* context = " ".join([...])
BuildContext(docs) ==
    Join(<<" ">>, [i \in 1..Len(docs) |-> Highlight(docs[i])])

\* The line break and the indentation that start every line of the prompt's
\* triple-quoted f-string, and that end it.
Indent == <<"\n">> \o Rep(" ", 16)

\* The prompt f-string: instruction, context, question, each on a line of its
\* own, and the closing line.
BuildPrompt(context, question) ==
    Indent \o <<"You are a helpful assistant.">>
        \o Indent \o <<"Context: ">> \o context
        \o Indent \o <<"User question: ">> \o question
        \o Indent

\* ------------------------------------------------------------------------
\* Inputs
\* ------------------------------------------------------------------------

\* The value of an empty file uploader.
NoFile == "none"

\* The PDFs a user uploads: one without text, one with whitespace only (the
\* form feed of a page end among it), one that gives a single chunk, one that
\* gives more chunks than are retrieved and ends its lines with \r\n.
Docs == {"empty.pdf", "blank.pdf", "short.pdf", "long.pdf"}

\* text_extractor_pdf(file): the plain text of the uploaded PDF.
text_extractor_pdf(file) ==
    CASE file = "empty.pdf" -> <<>>
      [] file = "blank.pdf" -> <<" ", "\r", "\n", "\f">>
      [] file = "short.pdf" -> <<"a", "b", " ", "b", "a">>
      [] file = "long.pdf"  ->
             Rep("a", 152) \o <<"\n", "\n">> \o Rep("b", 152) \o <<"\n", "\n">>
             \o Rep("a", 76) \o <<" ">> \o Rep("b", 76) \o <<"\n", "\n">>
             \o Rep("a", 150) \o <<".", "\r", "\n", "\f">>

\* The questions a user types; the chat input never submits an empty text.
Queries == {<<"a", "?">>, <<"b", " ", "b">>}

\* The completions the generation service returns: one with text, and the
\* empty one.
Completions == {<<"o", "k">>, <<>>}

\* One conversation turn, as appended to st.session_state.chat_history.
Turn(role, content) == [role |-> role, content |-> content]

\* ------------------------------------------------------------------------
\* State
\* ------------------------------------------------------------------------

VARIABLES
    pc,                \* the script line about to run, or "idle" between runs
    trigger,           \* the widget whose interaction asked last for the current run
    reset_clicked,     \* the value st.sidebar.button returns in the current run
    submitted,         \* the value st.chat_input returns in the current run (<<>>: None)
    file_uploaded,     \* value of the file uploader (kept between runs)
    replaced_file,     \* the value the file uploader held before its last change
                       \* (a history variable: no line of the script reads it)
    button_on_page,    \* whether the browser's page holds the Reset Chat button
    chat_input_on_page,\* whether the browser's page holds the chat input, drawn by
                       \* the current run or left there by the run before it
    chat_input_shown,  \* whether the current run has drawn the chat input
    has_chat_history,  \* "chat_history" in st.session_state
    chat_history,      \* st.session_state.chat_history
    bound,             \* the script variables assigned in the current run
    file_text, chunks, vector_store, user_input, retrieved_docs, prompt,
    response, typed_text,
    surfaced,          \* status and error boxes the current run has shown
    rendered           \* the turns drawn in the chat box by the current run

request == <<trigger, reset_clicked, submitted>>
session == <<file_uploaded, has_chat_history, chat_history>>
locals  == <<bound, file_text, chunks, vector_store, user_input, retrieved_docs,
             prompt, response, typed_text>>
page    == <<chat_input_shown, surfaced, rendered>>
browser == <<button_on_page, chat_input_on_page>>
vars    == <<pc, request, replaced_file, session, locals, page, browser>>

\* A run that finds the index of the run before it (an index cached across
\* runs and keyed on nothing).
FreshRunKeepsIndex ==
    /\ pc' = "l36"
    /\ bound' = bound \cap {"vector_store"}
    /\ vector_store' = vector_store
    /\ file_text' = <<>> /\ chunks' = <<>>
    /\ user_input' = <<>> /\ retrieved_docs' = <<>> /\ prompt' = <<>>
    /\ response' = <<>> /\ typed_text' = <<>>
    /\ chat_input_shown' = FALSE /\ surfaced' = {} /\ rendered' = <<>>

\* A script run begins: no script variable is assigned yet and the run has
\* drawn nothing.
FreshRun ==
    /\ pc' = "l36"
    /\ bound' = {}
    /\ file_text' = <<>> /\ chunks' = <<>> /\ vector_store' = <<>>
    /\ user_input' = <<>> /\ retrieved_docs' = <<>> /\ prompt' = <<>>
    /\ response' = <<>> /\ typed_text' = <<>>
    /\ chat_input_shown' = FALSE /\ surfaced' = {} /\ rendered' = <<>>

\* The session opens: the first run starts with an empty session state, an
\* empty file uploader and an empty page.
Init ==
    /\ pc = "l36" /\ trigger = "load" /\ reset_clicked = FALSE /\ submitted = <<>>
    /\ file_uploaded = NoFile /\ replaced_file = NoFile
    /\ button_on_page = FALSE /\ chat_input_on_page = FALSE
    /\ has_chat_history = FALSE /\ chat_history = <<>>
    /\ bound = {}
    /\ file_text = <<>> /\ chunks = <<>> /\ vector_store = <<>>
    /\ user_input = <<>> /\ retrieved_docs = <<>> /\ prompt = <<>>
    /\ response = <<>> /\ typed_text = <<>>
    /\ chat_input_shown = FALSE /\ surfaced = {} /\ rendered = <<>>

\* ------------------------------------------------------------------------
\* Widget interactions: each one asks for a run of the script
\* ------------------------------------------------------------------------

\* The steps that begin or end with a call into Streamlit: the sidebar, the
\* title and the tips of lines 19-31 and st.session_state of line 36,
\* st.sidebar.button of line 39, st.success of line 41, st.markdown of line 62,
\* st.chat_input of line 198, st.session_state of lines 201 and 250, the
\* placeholder and the spinner's entry of lines 217-231, the spinner's exit
\* after line 233, placeholder.markdown of line 239, and the st.markdown calls
\* of lines 253, 256/266 and 277-288.  A run that a widget interaction finds at
\* one of them is stopped there by Streamlit, and the script starts again.
StopLines ==
    {"l36", "l39", "l41", "l178", "l198", "l201", "l232", "l236", "l239", "l250",
     "l253", "l255", "l277"}

\* A widget interaction is taken between runs, or stops the run under way.
CanInteract == pc = "idle" \/ pc \in StopLines

\* Streamlit merges a request for a run with the request that is still
\* waiting: the click and the submission of the waiting request are kept
\* (keep) when the run they asked for has not begun, and are gone when it has.
\* Both cases are at line 36, the first position of a run.
CanKeep(keep) == keep => pc = "l36"
KeptClick(keep) == keep /\ reset_clicked
KeptSubmission(keep) == IF keep THEN submitted ELSE <<>>

\* st.sidebar.file_uploader (line 20): the user picks a PDF, the first one or
\* one that replaces the PDF held.
Upload(d, keep) ==
    /\ CanInteract /\ CanKeep(keep) /\ d /= file_uploaded
    /\ file_uploaded' = d /\ replaced_file' = file_uploaded
    /\ trigger' = "file_uploader"
    /\ reset_clicked' = KeptClick(keep) /\ submitted' = KeptSubmission(keep)
    /\ FreshRun
    /\ UNCHANGED <<has_chat_history, chat_history, browser>>

\* st.sidebar.file_uploader (line 20): the user removes the PDF.
RemoveFile(keep) ==
    /\ CanInteract /\ CanKeep(keep) /\ file_uploaded /= NoFile
    /\ file_uploaded' = NoFile /\ replaced_file' = file_uploaded
    /\ trigger' = "file_uploader"
    /\ reset_clicked' = KeptClick(keep) /\ submitted' = KeptSubmission(keep)
    /\ FreshRun
    /\ UNCHANGED <<has_chat_history, chat_history, browser>>

\* st.sidebar.checkbox (line 21): a rerun that changes nothing the logic reads.
ToggleDarkMode(keep) ==
    /\ CanInteract /\ CanKeep(keep)
    /\ trigger' = "checkbox"
    /\ reset_clicked' = KeptClick(keep) /\ submitted' = KeptSubmission(keep)
    /\ FreshRun
    /\ UNCHANGED <<replaced_file, session, browser>>

\* st.sidebar.button("Reset Chat") (line 39) is clicked; the button is on the
\* page once a run has drawn it.
ClickReset(keep) ==
    /\ CanInteract /\ CanKeep(keep) /\ button_on_page
    /\ trigger' = "button"
    /\ reset_clicked' = TRUE /\ submitted' = KeptSubmission(keep)
    /\ FreshRun
    /\ UNCHANGED <<replaced_file, session, browser>>

\* st.chat_input (line 198): the user submits a question; the widget is on the
\* page when the current run has drawn it, or the run before it did and the
\* current run has not come to its end.
SubmitQuery(q, keep) ==
    /\ CanInteract /\ CanKeep(keep) /\ chat_input_on_page
    /\ Len(chat_history) + 2 <= MaxTurns
    /\ trigger' = "chat_input"
    /\ reset_clicked' = KeptClick(keep) /\ submitted' = q
    /\ FreshRun
    /\ UNCHANGED <<replaced_file, session, browser>>

\* ------------------------------------------------------------------------
\* The script, line by line
\* ------------------------------------------------------------------------

\* The chat input dedented out of the `if file_uploaded` block.
After178ChatInputOutside(file) == IF file /= NoFile THEN "l180" ELSE "l198"

\* `if file_text:` without the strip.
After182NoStrip(text) == IF text /= <<>> THEN "l184" ELSE "idle"

\* A per-query block that lacks line 201.
After198NoUserTurn(input) == IF input /= <<>> THEN "l204" ELSE "l253"

\* A reset that assigns a local name and leaves the session's list alone.
ResetHistoryNoEffect(history) == history

\* A turn put at the front of the list (insert(0, ...)).
AppendTurnAtFront(history, role, content) == <<Turn(role, content)>> \o history

\* Control flow of the three nested guards (lines 178, 182, 193) and of the
\* guard of the per-query block (line 200).
After178(file) == IF file /= NoFile THEN "l180" ELSE "idle"
After182(text) == IF strip(text) /= <<>> THEN "l184" ELSE "idle"
After193(cs) == IF cs /= <<>> THEN "l194" ELSE "idle"
After198(input) == IF input /= <<>> THEN "l201" ELSE "l253"

\* The history the Reset Chat button leaves (line 40).
ResetHistory(history) == <<>>

\* The history after a turn was appended (lines 201, 250).
AppendTurn(history, role, content) == Append(history, Turn(role, content))

\* The chat input on the browser's page after a step that leaves the script at
\* next_pc: when the run ends, what it did not draw is taken off the page.
ChatInputOnPageAt(next_pc) ==
    IF next_pc = "idle" THEN chat_input_shown ELSE chat_input_on_page

\* The script ends here, at its last line or with an exception.
EndRun ==
    /\ pc' = "idle"
    /\ chat_input_on_page' = ChatInputOnPageAt("idle")
    /\ UNCHANGED button_on_page

\* Lines 36-37: the chat history is created on the session's first run.
InitSessionState ==
    /\ pc = "l36"
    /\ has_chat_history' = TRUE
    /\ chat_history' = IF has_chat_history THEN chat_history ELSE <<>>
    /\ pc' = "l39"
    /\ UNCHANGED <<request, replaced_file, file_uploaded, locals, page, browser>>

\* Lines 39-40: the button is drawn; it returns True in a run its click asked
\* for, and the history is cleared.
ResetChat ==
    /\ pc = "l39"
    /\ button_on_page' = TRUE
    /\ IF reset_clicked
       THEN /\ chat_history' = ResetHistory(chat_history)
            /\ pc' = "l41"
       ELSE /\ UNCHANGED chat_history
            /\ pc' = "l178"
    /\ UNCHANGED <<request, replaced_file, file_uploaded, has_chat_history, locals,
                   page, chat_input_on_page>>

\* Line 41: st.success("Chat history cleared!")
ShowSuccess ==
    /\ pc = "l41"
    /\ surfaced' = surfaced \cup {"Chat history cleared!"}
    /\ pc' = "l178"
    /\ UNCHANGED <<request, replaced_file, session, locals, chat_input_shown, rendered,
                   browser>>

\* Line 178: if file_uploaded
CheckFile ==
    /\ pc = "l178"
    /\ pc' = After178(file_uploaded)
    /\ chat_input_on_page' = ChatInputOnPageAt(pc')
    /\ UNCHANGED <<request, replaced_file, session, locals, page, button_on_page>>

\* Line 180: file_text = text_extractor_pdf(file_uploaded)
ExtractText ==
    /\ pc = "l180"
    /\ file_text' = text_extractor_pdf(file_uploaded)
    /\ bound' = bound \cup {"file_text"}
    /\ pc' = "l182"
    /\ UNCHANGED <<request, replaced_file, session, chunks, vector_store, user_input,
                   retrieved_docs, prompt, response, typed_text, page, browser>>

\* Line 182: if file_text.strip()
CheckText ==
    /\ pc = "l182"
    /\ pc' = After182(file_text)
    /\ chat_input_on_page' = ChatInputOnPageAt(pc')
    /\ UNCHANGED <<request, replaced_file, session, locals, page, button_on_page>>

\* Lines 184-190: the Gemini client, the embedding model and the splitter are
\* made; none of them is read back by the model.
ConfigureModels ==
    /\ pc = "l184"
    /\ pc' = "l191"
    /\ UNCHANGED <<request, replaced_file, session, locals, page, browser>>

\* The lines that call a collaborator with no handler around the call: the
\* extractor (180), the embedding model's load (189), the embedding of the
\* chunks (194) and of the query (204).
RaisingLines == {"l180", "l184", "l194", "l204"}

\* A collaborator raises: the run ends at that line and Streamlit shows the
\* exception.
CollaboratorRaises ==
    /\ pc \in RaisingLines
    /\ surfaced' = surfaced \cup {"exception"}
    /\ EndRun
    /\ UNCHANGED <<request, replaced_file, session, locals, chat_input_shown, rendered>>

\* Lines 190-191: chunks = splitter.split_text(file_text)
SplitChunks ==
    /\ pc = "l191"
    /\ chunks' = split_text(file_text)
    /\ bound' = bound \cup {"chunks"}
    /\ pc' = "l193"
    /\ UNCHANGED <<request, replaced_file, session, file_text, vector_store, user_input,
                   retrieved_docs, prompt, response, typed_text, page, browser>>

\* Line 193: if chunks
CheckChunks ==
    /\ pc = "l193"
    /\ pc' = After193(chunks)
    /\ chat_input_on_page' = ChatInputOnPageAt(pc')
    /\ UNCHANGED <<request, replaced_file, session, locals, page, button_on_page>>

\* Lines 194-195: the index is built from the chunks of this run.
BuildIndex ==
    /\ pc = "l194"
    /\ vector_store' = from_texts(chunks)
    /\ bound' = bound \cup {"vector_store"}
    /\ pc' = "l198"
    /\ UNCHANGED <<request, replaced_file, session, file_text, chunks, user_input,
                   retrieved_docs, prompt, response, typed_text, page, browser>>

\* Lines 198-200: the chat input is drawn and returns the text submitted for
\* this run, if any.
ChatInput ==
    /\ pc = "l198"
    /\ chat_input_shown' = TRUE /\ chat_input_on_page' = TRUE
    /\ user_input' = submitted
    /\ bound' = bound \cup {"user_input"}
    /\ pc' = After198(submitted)
    /\ UNCHANGED <<request, replaced_file, session, file_text, chunks, vector_store,
                   retrieved_docs, prompt, response, typed_text, surfaced, rendered,
                   button_on_page>>

\* Line 201: the user turn is appended.
AppendUserTurn ==
    /\ pc = "l201"
    /\ chat_history' = AppendTurn(chat_history, "user", user_input)
    /\ pc' = "l204"
    /\ UNCHANGED <<request, replaced_file, file_uploaded, has_chat_history, locals, page,
                   browser>>

\* Line 204: retrieved_docs = retriever.get_relevant_documents(user_input)
Retrieve ==
    /\ pc = "l204"
    /\ retrieved_docs' \in get_relevant_documents(vector_store, user_input)
    /\ bound' = bound \cup {"retrieved_docs"}
    /\ pc' = "l210"
    /\ UNCHANGED <<request, replaced_file, session, file_text, chunks, vector_store,
                   user_input, prompt, response, typed_text, page, browser>>

\* Lines 205-214: context and prompt.
ComposePrompt ==
    /\ pc = "l210"
    /\ prompt' = BuildPrompt(BuildContext(retrieved_docs), user_input)
    /\ bound' = bound \cup {"prompt"}
    /\ pc' = "l232"
    /\ UNCHANGED <<request, replaced_file, session, file_text, chunks, vector_store,
                   user_input, retrieved_docs, response, typed_text, page, browser>>

\* Line 232, the call returns: response = llm_model.generate_content(prompt).text
GenerateOk(r) ==
    /\ pc = "l232"
    /\ response' = r
    /\ bound' = bound \cup {"response"}
    /\ pc' = "l236"
    /\ UNCHANGED <<request, replaced_file, session, file_text, chunks, vector_store,
                   user_input, retrieved_docs, prompt, typed_text, page, browser>>

\* Line 232, the call raises (network failure, quota, blocked response): no
\* handler surrounds it, so the run ends there and Streamlit shows the
\* exception.
GenerateRaises ==
    /\ pc = "l232"
    /\ surfaced' = surfaced \cup {"exception"}
    /\ EndRun
    /\ UNCHANGED <<request, replaced_file, session, locals, chat_input_shown, rendered>>

\* Lines 236-237: typed_text = "" and the loop is entered, unless the response
\* has no character.
StartTyping ==
    /\ pc = "l236"
    /\ typed_text' = <<>>
    /\ bound' = bound \cup {"typed_text"}
    /\ pc' = IF response = <<>> THEN "l250" ELSE "l238"
    /\ UNCHANGED <<request, replaced_file, session, file_text, chunks, vector_store,
                   user_input, retrieved_docs, prompt, response, page, browser>>

\* Line 238: typed_text += char
TypeChar ==
    /\ pc = "l238"
    /\ typed_text' = Append(typed_text, response[Len(typed_text) + 1])
    /\ pc' = "l239"
    /\ UNCHANGED <<request, replaced_file, session, bound, file_text, chunks,
                   vector_store, user_input, retrieved_docs, prompt, response, page,
                   browser>>

\* Lines 239-248: the text typed so far is drawn, the script sleeps, and the
\* loop goes on to the next character or ends.
DrawTyped ==
    /\ pc = "l239"
    /\ pc' = IF Len(typed_text) < Len(response) THEN "l238" ELSE "l250"
    /\ UNCHANGED <<request, replaced_file, session, locals, page, browser>>

\* Line 250: the assistant turn is appended.
AppendAssistantTurn ==
    /\ pc = "l250"
    /\ chat_history' = AppendTurn(chat_history, "assistant", response)
    /\ pc' = "l253"
    /\ UNCHANGED <<request, replaced_file, file_uploaded, has_chat_history, locals, page,
                   browser>>

\* Lines 253-254: the chat box is opened and the loop over the history is
\* entered, unless the history is empty.
OpenChatBox ==
    /\ pc = "l253"
    /\ pc' = IF chat_history = <<>> THEN "l277" ELSE "l255"
    /\ UNCHANGED <<request, replaced_file, session, locals, page, browser>>

\* Lines 255-274: one turn of the history is drawn, as a user bubble or as an
\* assistant bubble, and the loop goes on to the next turn or ends.
DrawTurn ==
    /\ pc = "l255"
    /\ rendered' = Append(rendered, chat_history[Len(rendered) + 1])
    /\ pc' = IF Len(rendered) + 1 < Len(chat_history) THEN "l255" ELSE "l277"
    /\ UNCHANGED <<request, replaced_file, session, locals, chat_input_shown, surfaced,
                   browser>>

\* Lines 277-298: the back-to-top button, the end of the chat box and the
\* scroll script are drawn; the run ends.
CloseChatBox ==
    /\ pc = "l277"
    /\ EndRun
    /\ UNCHANGED <<request, replaced_file, session, locals, page>>

Next ==
    \/ \E d \in Docs, keep \in BOOLEAN : Upload(d, keep)
    \/ \E keep \in BOOLEAN : RemoveFile(keep)
    \/ \E keep \in BOOLEAN : ToggleDarkMode(keep)
    \/ \E keep \in BOOLEAN : ClickReset(keep)
    \/ \E q \in Queries, keep \in BOOLEAN : SubmitQuery(q, keep)
    \/ InitSessionState
    \/ ResetChat
    \/ ShowSuccess
    \/ CheckFile
    \/ ExtractText
    \/ CheckText
    \/ ConfigureModels
    \/ CollaboratorRaises
    \/ SplitChunks
    \/ CheckChunks
    \/ BuildIndex
    \/ ChatInput
    \/ AppendUserTurn
    \/ Retrieve
    \/ ComposePrompt
    \/ \E r \in Completions : GenerateOk(r)
    \/ GenerateRaises
    \/ StartTyping
    \/ TypeChar
    \/ DrawTyped
    \/ AppendAssistantTurn
    \/ OpenChatBox
    \/ DrawTurn
    \/ CloseChatBox

Spec == Init /\ [][Next]_vars

\* ------------------------------------------------------------------------
\* The controller's states, as the script's guards decide them
\* ------------------------------------------------------------------------

\* The chunks the script computes for each PDF, and the PDFs whose text is empty
\* or whitespace only (both tabulated once).
DocChunks == [file \in Docs |-> split_text(text_extractor_pdf(file))]
BlankDocs == {file \in Docs : strip(text_extractor_pdf(file)) = <<>>}

ChunksOf(file) == DocChunks[file]
BlankText(file) == file \in BlankDocs

\* Indexed: the three guards of lines 178, 182 and 193 all pass, so every run
\* builds the index and draws the chat input.  Idle otherwise.
Indexed(file) == file /= NoFile /\ ~BlankText(file) /\ ChunksOf(file) /= <<>>

\* The lines of the per-query block and of the chat display.
QueryLines == {"l201", "l204", "l210", "l232", "l236", "l238", "l239", "l250"}
DisplayLines == {"l253", "l255", "l277"}
IndexedLines == {"l194", "l198"} \cup QueryLines \cup DisplayLines

Last(seq) == seq[Len(seq)]
IsPrefix(a, b) == Len(a) <= Len(b) /\ SubSeq(b, 1, Len(a)) = a
PageContents(store) == [i \in 1..Len(store) |-> store[i].page_content]
Range(seq) == {seq[i] : i \in 1..Len(seq)}
Roles(history, role) == {i \in 1..Len(history) : history[i].role = role}

\* ------------------------------------------------------------------------
\* Claims
\* ------------------------------------------------------------------------

\* C1: when the generation call of a query fails, an assistant turn with an
\* error indicator is appended after the user turn.  (The code has no handler
\* around line 232: the run ends with the user turn as the last turn.)
C1_FailedGenerationAppendsErrorTurn ==
    (pc = "idle" /\ "exception" \in surfaced /\ "prompt" \in bound) =>
        /\ Len(chat_history) >= 2
        /\ Last(chat_history).role = "assistant"
        /\ chat_history[Len(chat_history) - 1] = Turn("user", user_input)

\* C2: the reset (line 40, run when the step of lines 39-40 is taken in a run
\* the button was clicked for) empties the chat history and leaves the uploaded
\* document, hence the Idle/Indexed state, alone.  The run of a reset, when it
\* comes to its end with no exception, leaves in the history nothing but the
\* turns of a query that came with the click; in the Indexed state it has
\* rebuilt the index of the same document and has put the chat input on the
\* page, so a query needs no upload and, when it came with the click, is
\* answered.
C2_ResetClearsOnlyHistory ==
    [][ /\ (pc = "l39" /\ pc' = "l41" /\ reset_clicked) =>
              /\ chat_history' = <<>>
              /\ file_uploaded' = file_uploaded
              /\ Indexed(file_uploaded') = Indexed(file_uploaded)
        /\ (pc /= "idle" /\ pc' = "idle" /\ reset_clicked' /\ "exception" \notin surfaced') =>
              /\ Indexed(file_uploaded') =>
                    /\ "vector_store" \in bound'
                    /\ PageContents(vector_store') = ChunksOf(file_uploaded')
                    /\ chat_input_shown' /\ chat_input_on_page'
                    /\ chat_history' =
                           IF submitted' = <<>> THEN <<>>
                           ELSE <<Turn("user", submitted'), Turn("assistant", response')>>
              /\ ~Indexed(file_uploaded') =>
                    /\ "vector_store" \notin bound'
                    /\ ~chat_input_shown' /\ ~chat_input_on_page'
                    /\ chat_history' = <<>>
      ]_vars

\* C2 witness: the run of a reset has ended in the Indexed state: the history
\* is empty, the index is built and the chat input is on the page.
C2_Witness ==
    /\ pc = "idle" /\ reset_clicked /\ "exception" \notin surfaced
    /\ "Chat history cleared!" \in surfaced
    /\ chat_history = <<>>
    /\ Indexed(file_uploaded)
    /\ vector_store /= <<>> /\ chat_input_shown /\ chat_input_on_page

\* C3: the chat history is append-only: every step but the reset of line 40
\* keeps the history it finds as a prefix of the history it leaves.
C3_AppendOnly ==
    [][ (pc = "l39" /\ reset_clicked) \/ IsPrefix(chat_history, chat_history') ]_vars

\* C3 witness: a history of three turns, one of them from a failed query, has
\* gone through the upload of another document.
C3_Witness ==
    /\ pc = "idle" /\ trigger = "file_uploader"
    /\ Len(chat_history) >= 3
    /\ replaced_file /= NoFile /\ file_uploaded /= NoFile

\* C4: a query whose generation call returns adds exactly two turns, the user
\* turn with the query text and then the assistant turn with the completion:
\* when a run that holds a response ends, or gives way to the next run, the
\* history ends with these two turns.  (A widget interaction during the typing
\* animation of lines 237-248 stops the run before line 250.)
C4_AnsweredQueryAddsTwoTurns ==
    [][ ("response" \in bound /\ pc /= "idle" /\ pc' \in {"idle", "l36"}) =>
            /\ Len(chat_history') >= 2
            /\ chat_history'[Len(chat_history') - 1] = [role |-> "user", content |-> user_input]
            /\ Last(chat_history') = [role |-> "assistant", content |-> response]
      ]_vars

\* C5: while the uploaded PDF has no text but whitespace the controller is
\* Idle: no run goes past line 182, so nothing is chunked, no index is built,
\* the chat input is not drawn, and a query, also one submitted from the chat
\* input that the run on the document before left on the page, is not
\* processed: no line of the per-query block runs; the run's end takes the chat
\* input off the page.
C5_BlankTextStaysIdle ==
    (file_uploaded /= NoFile /\ BlankText(file_uploaded)) =>
        /\ pc \in {"l36", "l39", "l41", "l178", "l180", "l182", "idle"}
        /\ bound \subseteq {"file_text"}
        /\ "file_text" \in bound => file_text = text_extractor_pdf(file_uploaded)
        /\ chunks = <<>> /\ vector_store = <<>>
        /\ user_input = <<>> /\ retrieved_docs = <<>> /\ prompt = <<>> /\ response = <<>>
        /\ ~chat_input_shown
        /\ pc = "idle" => ~chat_input_on_page

\* C5 witness: the run on a whitespace-only PDF has ended after the extraction;
\* it was asked for with a query, which it left alone.
C5_Witness ==
    /\ pc = "idle" /\ file_uploaded /= NoFile /\ surfaced = {}
    /\ \E i \in 1..Len(file_text) : file_text[i] = "\f"
    /\ "file_text" \in bound /\ file_text /= <<>> /\ strip(file_text) = <<>>
    /\ submitted /= <<>>

\* C7: the index, whenever a run holds one, is the index of the chunks of the
\* document now in the uploader, in order, and of nothing else; what is
\* retrieved is among these chunks.
C7_IndexIsCurrentDocument ==
    /\ "vector_store" \in bound =>
           /\ file_uploaded /= NoFile
           /\ PageContents(vector_store) = ChunksOf(file_uploaded)
    /\ "vector_store" \notin bound => vector_store = <<>>
    /\ "retrieved_docs" \in bound =>
           /\ "vector_store" \in bound
           /\ Range(retrieved_docs) \subseteq Range(ChunksOf(file_uploaded))

\* C7 witness: retrieval from the index of a document that replaced another
\* indexed document, none of whose chunks it shares.
C7_Witness ==
    /\ pc = "l210" /\ retrieved_docs /= <<>>
    /\ Indexed(replaced_file) /\ Indexed(file_uploaded)
    /\ Range(ChunksOf(replaced_file)) \cap Range(ChunksOf(file_uploaded)) = {}
    /\ Len(chat_history) >= 3

C9_NoQueryWhileIdle ==
    [][ ~Indexed(file_uploaded') =>
            /\ pc' \notin IndexedLines
            /\ ~chat_input_shown'
            /\ pc' = "idle" => ~chat_input_on_page'
            /\ bound' \cap {"user_input", "retrieved_docs", "prompt", "response"} = {}
            /\ IsPrefix(chat_history', chat_history)
      ]_vars

\* C9 witness: a history of answered queries has gone through the removal of
\* the document, and the run that followed was asked for with a query from
\* the chat input still on the page.
C9_Witness ==
    /\ pc = "idle" /\ file_uploaded = NoFile /\ replaced_file /= NoFile
    /\ Len(chat_history) >= 2
    /\ submitted /= <<>>

\* C10: every assistant turn comes right after a user turn, so the history
\* never starts with an assistant turn and never holds more assistant turns
\* than user turns.
C10_AssistantFollowsUser ==
    /\ \A i \in Roles(chat_history, "assistant") :
           i > 1 /\ chat_history[i - 1].role = "user"
    /\ Cardinality(Roles(chat_history, "assistant")) <= Cardinality(Roles(chat_history, "user"))
    /\ Roles(chat_history, "assistant") \cup Roles(chat_history, "user") = 1..Len(chat_history)

\* C10 witness: a query answered after a query whose generation failed: two
\* user turns in a row, then an assistant turn.
C10_Witness ==
    /\ Len(chat_history) >= 3
    /\ chat_history[1].role = "user" /\ chat_history[2].role = "user"
    /\ chat_history[3].role = "assistant"

====
